---- MODULE Spec2Model ----
(***************************************************************************)
(* Differential-line growth: the ParticleSystem of src/main.rs.            *)
(*                                                                         *)
(* The particle store is a set of parallel arrays indexed by a 0-based     *)
(* particle id; here each array is a sequence and id k lives at k+1.       *)
(* f32 coordinates are fixed-point integers in units of 1/Scale, divisions *)
(* truncate toward zero; a colour channel is <<"num", v>>, <<"inf", 0>> or *)
(* <<"nan", 0>> so that the 0/0 and x/0 of the colour pass stay visible.   *)
(* The loops of spawn_particles and update advance one iteration per       *)
(* action, the program counter pc and the loop indices i, e say where.     *)
(***************************************************************************)
EXTENDS Integers, Sequences, FiniteSets, TLC

\* ---------------------------------------------------------------- bounds
MaxCount == 4        \* largest num_particles handed to spawn_particles
MaxParticles == 6    \* the random split gate stays shut at this population
MaxSteps == 3        \* number of update() calls explored
DenseCount == 10     \* num_particles of the crowded ring of SpecDense
DenseGrowth == 1     \* splits explored on top of the crowded ring

\* -------------------------------------------------------------- numerics
Scale == 100

Div(a, b) == IF a >= 0 THEN a \div b ELSE -((-a) \div b)

RECURSIVE SqrtSearch(_, _, _)
SqrtSearch(x, lo, hi) ==
    IF lo >= hi THEN lo
    ELSE LET mid == (lo + hi + 1) \div 2
         IN  IF mid * mid <= x THEN SqrtSearch(x, mid, hi)
             ELSE SqrtSearch(x, lo, mid - 1)

ISqrt(x) == SqrtSearch(x, 0, 46340)

\* A vector is <<x, y>>, or VNaN once a 0.0 / 0.0 has entered it.
vec2(x, y) == <<x, y>>
VNaN == <<"nan">>
VAdd(a, b) ==
    IF a = VNaN \/ b = VNaN THEN VNaN ELSE <<a[1] + b[1], a[2] + b[2]>>
VSub(a, b) ==
    IF a = VNaN \/ b = VNaN THEN VNaN ELSE <<a[1] - b[1], a[2] - b[2]>>
VMulRatio(a, n, d) ==
    IF a = VNaN THEN VNaN ELSE <<Div(a[1] * n, d), Div(a[2] * n, d)>>
MagSq(a) == a[1] * a[1] + a[2] * a[2]
magnitude(a) == ISqrt(MagSq(a))

\* a.magnitude() < b.magnitude(); false as soon as a NaN is compared
MagLess(a, b) == a # VNaN /\ b # VNaN /\ MagSq(a) < MagSq(b)

\* v / v.magnitude(): the unit vector (length Scale), NaN for the zero vector
normalize(v) ==
    IF v = VNaN \/ magnitude(v) = 0 THEN VNaN
    ELSE VMulRatio(v, Scale, magnitude(v))

limit_magnitude_unguarded(v, limit) ==
    VMulRatio(normalize(v), limit, Scale)

\* if self.magnitude() > limit { self.normalize() * limit } else { self }
limit_magnitude(v, limit) ==
    IF MagSq(v) > limit * limit
    THEN VMulRatio(normalize(v), limit, Scale)
    ELSE v

\* colour channels ---------------------------------------------------------
Num(v) == <<"num", v>>
NaN == <<"nan", 0>>
Inf == <<"inf", 0>>

FDiv(a, b) ==
    IF b = 0 THEN (IF a = 0 THEN NaN ELSE Inf)
    ELSE Num(Div(a * Scale, b))

FMul(x, y) ==
    IF x = NaN \/ y = NaN THEN NaN
    ELSE IF x = Inf \/ y = Inf
         THEN (IF x = Num(0) \/ y = Num(0) THEN NaN ELSE Inf)
         ELSE Num(Div(x[2] * y[2], Scale))

FAdd(x, y) ==
    IF x = NaN \/ y = NaN THEN NaN
    ELSE IF x = Inf \/ y = Inf THEN Inf
         ELSE Num(x[2] + y[2])

FHalf(x) == IF x[1] = "num" THEN Num(Div(x[2], 2)) ELSE x

Rgba(r, g, b, a) == <<r, g, b, a>>

\* ------------------------------------------------------------- constants
particle_radius == 4 * Scale
influence_radius == 12 * Scale
SplitNeighborLimit == 16

\* ----------------------------------------------------------------- state
VARIABLES
    pc,                    \* "new", "spawn", "idle", "force", "color", "split"
    spawn_count,           \* spawn_particles' argument num_particles
    spawn_radius,          \* spawn_particles' argument spawn_radius
    i,                     \* loop index of spawn_particles and of the force pass
    e,                     \* loop index of the split pass
    split_end,             \* self.edges.len() as evaluated when the split pass starts
    old_positions,         \* update's clone of positions
    old_edges,             \* history: edges when the running update() started
    steps,                 \* history: update() calls started
    max_pressure_index, max_attraction_index, max_neighbors_index,
    num_particles, positions, colors, edges, pressures, attractions,
    num_neighbors,
    twin                   \* a second ParticleSystem, run through the same
                           \* calls with the same random split gates but
                           \* its own random spawn colours

vars == <<pc, spawn_count, spawn_radius, i, e, split_end, old_positions,
          old_edges, steps, max_pressure_index, max_attraction_index,
          max_neighbors_index, num_particles, positions, colors, edges,
          pressures, attractions, num_neighbors, twin>>

At(s, k) == s[k + 1]
Put(s, k, v) == [s EXCEPT ![k + 1] = v]
Ids(s) == 0 .. (Len(s) - 1)

prev(k) == At(edges, k)[1]
next(k) == At(edges, k)[2]

\* A ParticleSystem as one value (with update's old_positions): what `self`
\* is in the first system, and the shape of twin.
ps_new ==
    [max_pressure_index |-> 0, max_attraction_index |-> 0,
     max_neighbors_index |-> 0, num_particles |-> 0, positions |-> <<>>,
     colors |-> <<>>, edges |-> <<>>, pressures |-> <<>>,
     attractions |-> <<>>, num_neighbors |-> <<>>, old_positions |-> <<>>]

self ==
    [max_pressure_index |-> max_pressure_index,
     max_attraction_index |-> max_attraction_index,
     max_neighbors_index |-> max_neighbors_index,
     num_particles |-> num_particles, positions |-> positions,
     colors |-> colors, edges |-> edges, pressures |-> pressures,
     attractions |-> attractions, num_neighbors |-> num_neighbors,
     old_positions |-> old_positions]

\* --------------------------------------------------------------- seeding
wrap_no_reset(num, max) ==
    IF num < 0 THEN max - 1 ELSE num

wrap(num, max) ==
    IF num < 0 THEN max - 1
    ELSE IF num = max THEN 0
    ELSE num

\* direction * (spawn_radius + offset) of the k-th particle, for the spawn
\* radii explored: the values of cos, sin and the 6.2-wobble tabulated in
\* units of 1/Scale.
SpawnRadii == {0, 100 * Scale}

SpawnTable ==
    [r \in SpawnRadii |->
       IF r = 0
       THEN << <<>>,
               << <<0, 0>> >>,
               << <<0, 0>>, <<-2939, 0>> >>,
               << <<0, 0>>, <<-1017, 1761>>, <<-1858, -3218>> >>,
               << <<0, 0>>, <<0, -1545>>, <<-2939, 0>>, <<0, 4045>> >>,
               << <<0, 0>>, <<1542, 4746>>, <<-507, 368>>, <<3973, 2887>>,
                  <<-384, 1183>> >>,
               << <<0, 0>>, <<520, 900>>, <<-1017, 1761>>, <<-2939, 0>>,
                  <<-1858, -3218>>, <<2165, -3750>> >> >>
       ELSE << <<>>,
               << <<10000, 0>> >>,
               << <<10000, 0>>, <<-12939, 0>> >>,
               << <<10000, 0>>, <<-6017, 10421>>, <<-6858, -11878>> >>,
               << <<10000, 0>>, <<0, 8455>>, <<-12939, 0>>, <<0, -5955>> >>,
               << <<10000, 0>>, <<4632, 14256>>, <<-8597, 6246>>,
                  <<-4117, -2991>>, <<2706, -8328>> >>,
               << <<10000, 0>>, <<5520, 9561>>, <<-6017, 10421>>,
                  <<-12939, 0>>, <<-6858, -11878>>, <<7165, -12410>> >> >>]

\* the same for the crowded rings, spawned with radius 0
DenseTable ==
    [c \in {10, 11} |->
       IF c = 10
       THEN << <<0, 0>>, <<-2769, -2012>>, <<1542, 4746>>, <<1191, -3664>>,
               <<-507, 368>>, <<-2939, 0>>, <<3973, 2887>>, <<-1305, -4015>>,
               <<-384, 1183>>, <<-1949, 1416>> >>
       ELSE << <<0, 0>>, <<-1637, -1052>>, <<1490, 3262>>, <<663, -4612>>,
               <<-3273, 3777>>, <<4364, -1281>>, <<-3244, -953>>,
               <<1100, 1270>>, <<41, 283>>, <<916, -2007>>,
               <<-3179, 2043>> >>]

SpawnPosition(count, radius, k) ==
    IF count \in DOMAIN DenseTable
    THEN At(DenseTable[count], k)
    ELSE At(At(SpawnTable[radius], count), k)

\* population at which the random split gate stays shut
PopulationCap ==
    IF spawn_count \in DOMAIN DenseTable
    THEN spawn_count + DenseGrowth
    ELSE MaxParticles

\* Rgba::new(l, l - random*0.2, l - random*0.1, 1.0): two of its outcomes.
SpawnColors ==
    { Rgba(Num(50), Num(50), Num(50), Num(Scale)),
      Rgba(Num(90), Num(70), Num(80), Num(Scale)) }

\* ------------------------------------------------------------ operations
Init ==
    /\ pc = "new"
    /\ spawn_count = 0
    /\ spawn_radius = 0
    /\ i = 0
    /\ e = 0
    /\ split_end = 0
    /\ old_positions = <<>>
    /\ old_edges = <<>>
    /\ steps = 0
    /\ max_pressure_index = 0
    /\ max_attraction_index = 0
    /\ max_neighbors_index = 0
    /\ num_particles = 0
    /\ positions = <<>>
    /\ colors = <<>>
    /\ edges = <<>>
    /\ pressures = <<>>
    /\ attractions = <<>>
    /\ num_neighbors = <<>>
    /\ twin = ps_new

\* add_particle: every array grows by one entry, num_particles by one.
\* `links` is the edges array the entry is pushed onto.
add_particle_no_count(position, color, links, pair, pressure, attraction) ==
    /\ positions' = Append(positions, position)
    /\ colors' = Append(colors, color)
    /\ edges' = Append(links, pair)
    /\ pressures' = Append(pressures, pressure)
    /\ attractions' = Append(attractions, attraction)
    /\ num_neighbors' = Append(num_neighbors, 0)
    /\ num_particles' = num_particles

add_particle(position, color, links, pair, pressure, attraction) ==
    /\ positions' = Append(positions, position)
    /\ colors' = Append(colors, color)
    /\ edges' = Append(links, pair)
    /\ pressures' = Append(pressures, pressure)
    /\ attractions' = Append(attractions, attraction)
    /\ num_neighbors' = Append(num_neighbors, 0)
    /\ num_particles' = num_particles + 1

\* add_particle on a ParticleSystem value
ps_add_particle(S, position, color, links, pair, pressure, attraction) ==
    [S EXCEPT !.positions = Append(@, position),
              !.colors = Append(@, color),
              !.edges = Append(links, pair),
              !.pressures = Append(@, pressure),
              !.attractions = Append(@, attraction),
              !.num_neighbors = Append(@, 0),
              !.num_particles = @ + 1]

spawn_particles_call(count, radius) ==
    /\ pc = "new"
    /\ pc' = "spawn"
    /\ spawn_count' = count
    /\ spawn_radius' = radius
    /\ i' = 0
    /\ UNCHANGED <<e, split_end, old_positions, old_edges, steps,
                   max_pressure_index, max_attraction_index,
                   max_neighbors_index, num_particles, positions, colors,
                   edges, pressures, attractions, num_neighbors, twin>>

spawn_particles_body(color, other) ==
    /\ pc = "spawn"
    /\ i < spawn_count
    /\ LET position == SpawnPosition(spawn_count, spawn_radius, i)
           prev_particle == wrap(i - 1, spawn_count)
           next_particle == wrap(i + 1, spawn_count)
       IN  add_particle(position, color, edges,
                        <<prev_particle, next_particle>>,
                        vec2(0, 0), vec2(0, 0))
    /\ twin' = ps_add_particle(
                   twin, SpawnPosition(spawn_count, spawn_radius, i),
                   other, twin.edges,
                   <<wrap(i - 1, spawn_count), wrap(i + 1, spawn_count)>>,
                   vec2(0, 0), vec2(0, 0))
    /\ i' = i + 1
    /\ UNCHANGED <<pc, spawn_count, spawn_radius, e, split_end,
                   old_positions, old_edges, steps, max_pressure_index,
                   max_attraction_index, max_neighbors_index>>

spawn_particles_return ==
    /\ pc = "spawn"
    /\ i = spawn_count
    /\ num_particles' = spawn_count
    /\ twin' = [twin EXCEPT !.num_particles = spawn_count]
    /\ pc' = "idle"
    /\ i' = 0
    /\ UNCHANGED <<spawn_count, spawn_radius, e, split_end, old_positions,
                   old_edges, steps, max_pressure_index,
                   max_attraction_index, max_neighbors_index, positions,
                   colors, edges, pressures, attractions, num_neighbors>>

\* ------------------------------------------------------ neighbor search
\* get_neighbors_of_particle: every j other than index whose distance to
\* index is at most influence_radius (magnitude <= r  iff  MagSq <= r*r).
get_neighbors_unsquared(pos, n, index) ==
    { j \in 0 .. (n - 1) :
        /\ index # j
        /\ MagSq(VSub(At(pos, index), At(pos, j))) <= influence_radius }

get_neighbors_of_particle(pos, n, index) ==
    { j \in 0 .. (n - 1) :
        /\ index # j
        /\ MagSq(VSub(At(pos, index), At(pos, j)))
              <= influence_radius * influence_radius }

\* ------------------------------------------------------------ force pass
\* (old_positions[b0] + old_positions[b1]) / 2.0 - old_positions[i]
attraction_of_current(snapshot, current, links, k) ==
    LET b0 == At(links, k)[1]
        b1 == At(links, k)[2]
    IN  VSub(VMulRatio(VAdd(At(current, b0), At(current, b1)), 1, 2),
             At(current, k))

attraction_of(snapshot, current, links, k) ==
    LET b0 == At(links, k)[1]
        b1 == At(links, k)[2]
    IN  VSub(VMulRatio(VAdd(At(snapshot, b0), At(snapshot, b1)), 1, 2),
             At(snapshot, k))

RECURSIVE PressureSum(_, _, _)
PressureSum(pos, k, js) ==
    IF js = {} THEN vec2(0, 0)
    ELSE LET j == CHOOSE x \in js : TRUE
         IN  VAdd(VMulRatio(VSub(At(pos, k), At(pos, j)),
                            Scale, Div(influence_radius, 2)),
                  PressureSum(pos, k, js \ {j}))

pressure_of(pos, k, neighbors) ==
    limit_magnitude(PressureSum(pos, k, neighbors), 2 * Scale)

update_begin ==
    /\ pc = "idle"
    /\ steps < MaxSteps
    /\ steps' = steps + 1
    /\ old_positions' = positions
    /\ twin' = [twin EXCEPT !.old_positions = twin.positions]
    /\ old_edges' = edges
    /\ i' = 0
    /\ pc' = IF num_particles = 0 THEN "color" ELSE "force"
    /\ UNCHANGED <<spawn_count, spawn_radius, e, split_end,
                   max_pressure_index, max_attraction_index,
                   max_neighbors_index, num_particles, positions, colors,
                   edges, pressures, attractions, num_neighbors>>

\* The body of the force loop for particle k of system S.
force_body_tinted(S, k) ==
    LET neighbors == get_neighbors_of_particle(S.positions, S.num_particles, k)
        nn == Put(S.num_neighbors, k, Cardinality(neighbors))
        attraction == attraction_of(S.old_positions, S.positions, S.edges, k)
        att == Put(S.attractions, k, attraction)
        pos1 == Put(S.positions, k,
                    VAdd(At(S.positions, k), VMulRatio(attraction, IF At(S.colors, k)[1] = Num(50) THEN 6 ELSE 5, 10)))
        pressure == pressure_of(pos1, k, neighbors)
        prs == Put(S.pressures, k, pressure)
        pos2 == Put(pos1, k, VAdd(At(pos1, k), VMulRatio(pressure, 2, 10)))
    IN  [S EXCEPT
           !.num_neighbors = nn,
           !.max_neighbors_index =
                 IF At(nn, S.max_neighbors_index) < Cardinality(neighbors)
                 THEN k ELSE S.max_neighbors_index,
           !.attractions = att,
           !.max_attraction_index =
                 IF MagLess(At(att, S.max_attraction_index), attraction)
                 THEN k ELSE S.max_attraction_index,
           !.pressures = prs,
           !.positions = pos2,
           !.max_pressure_index =
                 IF MagLess(At(prs, S.max_pressure_index), pressure)
                 THEN k ELSE S.max_pressure_index]

force_body(S, k) ==
    LET neighbors == get_neighbors_of_particle(S.positions, S.num_particles, k)
        nn == Put(S.num_neighbors, k, Cardinality(neighbors))
        attraction == attraction_of(S.old_positions, S.positions, S.edges, k)
        att == Put(S.attractions, k, attraction)
        pos1 == Put(S.positions, k,
                    VAdd(At(S.positions, k), VMulRatio(attraction, 6, 10)))
        pressure == pressure_of(pos1, k, neighbors)
        prs == Put(S.pressures, k, pressure)
        pos2 == Put(pos1, k, VAdd(At(pos1, k), VMulRatio(pressure, 2, 10)))
    IN  [S EXCEPT
           !.num_neighbors = nn,
           !.max_neighbors_index =
                 IF At(nn, S.max_neighbors_index) < Cardinality(neighbors)
                 THEN k ELSE S.max_neighbors_index,
           !.attractions = att,
           !.max_attraction_index =
                 IF MagLess(At(att, S.max_attraction_index), attraction)
                 THEN k ELSE S.max_attraction_index,
           !.pressures = prs,
           !.positions = pos2,
           !.max_pressure_index =
                 IF MagLess(At(prs, S.max_pressure_index), pressure)
                 THEN k ELSE S.max_pressure_index]

update_force ==
    /\ pc = "force"
    /\ i < num_particles
    /\ LET S == force_body(self, i)
       IN  /\ num_neighbors' = S.num_neighbors
           /\ max_neighbors_index' = S.max_neighbors_index
           /\ attractions' = S.attractions
           /\ max_attraction_index' = S.max_attraction_index
           /\ pressures' = S.pressures
           /\ positions' = S.positions
           /\ max_pressure_index' = S.max_pressure_index
    /\ twin' = force_body(twin, i)
    /\ i' = IF i + 1 < num_particles THEN i + 1 ELSE 0
    /\ pc' = IF i + 1 < num_particles THEN "force" ELSE "color"
    /\ UNCHANGED <<spawn_count, spawn_radius, e, split_end, old_positions,
                   old_edges, steps, num_particles, colors, edges>>

\* ----------------------------------------------------------- colour pass
\* Rgba::new(p, a, p * a + 0.1, 1.0); the third ratio n is computed and
\* then unused by the source.
color_of(prs, att, mp, ma, k) ==
    LET p == FDiv(magnitude(At(prs, k)), magnitude(At(prs, mp)))
        a == FDiv(magnitude(At(att, k)), magnitude(At(att, ma)))
    IN  Rgba(p, a, FAdd(FMul(p, a), Num(Div(Scale, 10))), Num(Scale))

ps_color(S) ==
    [S EXCEPT !.colors =
        [k \in 1 .. Len(S.colors) |->
            IF k - 1 < S.num_particles
            THEN color_of(S.pressures, S.attractions, S.max_pressure_index,
                          S.max_attraction_index, k - 1)
            ELSE S.colors[k]]]

update_color ==
    /\ pc = "color"
    /\ twin' = ps_color(twin)
    /\ colors' = [k \in 1 .. Len(colors) |->
                    IF k - 1 < num_particles
                    THEN color_of(pressures, attractions, max_pressure_index,
                                  max_attraction_index, k - 1)
                    ELSE colors[k]]
    /\ split_end' = Len(edges)
    /\ e' = 0
    /\ pc' = IF Len(edges) = 0 THEN "idle" ELSE "split"
    /\ UNCHANGED <<spawn_count, spawn_radius, i, old_positions, old_edges,
                   steps, max_pressure_index, max_attraction_index,
                   max_neighbors_index, num_particles, positions, edges,
                   pressures, attractions, num_neighbors>>

\* ------------------------------------------------------------ split pass
\* self.edges[p0].1 = new_index; self.edges[p1].0 = new_index;
split_links_next_only(links, p0, p1, new_index) ==
    Put(links, p0, <<At(links, p0)[1], new_index>>)

split_links_swapped(links, p0, p1, new_index) ==
    LET l1 == Put(links, p0, <<new_index, At(links, p0)[2]>>)
    IN  Put(l1, p1, <<At(l1, p1)[1], new_index>>)

split_links_off_by_one(links, p0, p1, new_index) ==
    LET l1 == Put(links, p0, <<At(links, p0)[1], new_index + 1>>)
    IN  Put(l1, p1, <<new_index + 1, At(l1, p1)[2]>>)

split_links_both_sides(links, p0, p1, new_index) ==
    LET l1 == Put(links, p0, <<new_index, new_index>>)
    IN  Put(l1, p1, <<new_index, At(l1, p1)[2]>>)

split_links(links, p0, p1, new_index) ==
    LET l1 == Put(links, p0, <<At(links, p0)[1], new_index>>)
    IN  Put(l1, p1, <<new_index, At(l1, p1)[2]>>)

split_position(pos, prs, p0, p1) ==
    VAdd(VAdd(VMulRatio(VAdd(At(pos, p0), At(pos, p1)), 1, 2), At(prs, p0)),
         At(prs, p1))

split_color(cols, p0, p1) ==
    [c \in 1 .. 4 |-> FHalf(FAdd(At(cols, p0)[c], At(cols, p1)[c]))]

split_at_reversed(p0, p1) ==
    LET new_index == Len(positions)
    IN  add_particle(split_position(positions, pressures, p0, p1),
                     split_color(colors, p0, p1),
                     split_links(edges, p0, p1, new_index),
                     <<p1, p0>>, vec2(0, 0), vec2(0, 0))

split_at_inherits(p0, p1) ==
    LET new_index == Len(positions)
    IN  add_particle(split_position(positions, pressures, p0, p1),
                     split_color(colors, p0, p1),
                     split_links(edges, p0, p1, new_index),
                     <<p0, p1>>, At(pressures, p0), At(attractions, p0))

split_at(p0, p1) ==
    LET new_index == Len(positions)
    IN  add_particle(split_position(positions, pressures, p0, p1),
                     split_color(colors, p0, p1),
                     split_links(edges, p0, p1, new_index),
                     <<p0, p1>>, vec2(0, 0), vec2(0, 0))

\* split_at, and one iteration of the split loop, on a ParticleSystem value
ps_split_at(S, p0, p1) ==
    LET new_index == Len(S.positions)
    IN  ps_add_particle(S, split_position(S.positions, S.pressures, p0, p1),
                        split_color(S.colors, p0, p1),
                        split_links(S.edges, p0, p1, new_index),
                        <<p0, p1>>, vec2(0, 0), vec2(0, 0))

\* self.num_neighbors[p0] + self.num_neighbors[p1] < 16 && random_f32() < 0.05
split_condition_first_only(nn, p0, p1, gate) ==
    At(nn, p0) < SplitNeighborLimit /\ gate

split_condition(nn, p0, p1, gate) ==
    At(nn, p0) + At(nn, p1) < SplitNeighborLimit /\ gate

ps_split(S, k, gate) ==
    LET p0 == k
        p1 == At(S.edges, k)[2]
    IN  IF split_condition(S.num_neighbors, p0, p1, gate)
        THEN ps_split_at(S, p0, p1)
        ELSE S

\* range end of `for e in 0..self.edges.len()`: fixed when the pass starts.
split_range_end_live(at_start, now) == now

split_range_end(at_start, now) == at_start

\* One iteration; gate is the outcome of random_f32() < 0.05. avg_pressure
\* and relative_magnitude are computed and then unused by the source.
update_split(gate) ==
    /\ pc = "split"
    /\ e < split_range_end(split_end, Len(edges))
    /\ gate => num_particles < PopulationCap
    /\ LET p0 == e
           p1 == At(edges, e)[2]
       IN  IF split_condition(num_neighbors, p0, p1, gate)
           THEN split_at(p0, p1)
           ELSE UNCHANGED <<num_particles, positions, colors, edges,
                            pressures, attractions, num_neighbors>>
    /\ twin' = ps_split(twin, e, gate)
    /\ e' = IF e + 1 < split_range_end(split_end, Len(edges)') THEN e + 1 ELSE 0
    /\ pc' = IF e + 1 < split_range_end(split_end, Len(edges)')
             THEN "split" ELSE "idle"
    /\ UNCHANGED <<spawn_count, spawn_radius, i, split_end, old_positions,
                   old_edges, steps, max_pressure_index,
                   max_attraction_index, max_neighbors_index>>

\* --------------------------------------------------------- specification
Next ==
    \/ \E count \in 0 .. MaxCount, radius \in SpawnRadii :
          spawn_particles_call(count, radius)
    \/ \E color, other \in SpawnColors : spawn_particles_body(color, other)
    \/ spawn_particles_return
    \/ update_begin
    \/ update_force
    \/ update_color
    \/ \E gate \in BOOLEAN : update_split(gate)

Spec == Init /\ [][Next]_vars

\* update() is one uninterrupted call: once entered, its loops keep running,
\* so each loop step that is enabled is eventually taken.
\* While pc = "force" the only step of Next is update_force, which advances
\* i or moves on to the colour pass; while pc = "color" the only step is
\* update_color. The two actions below describe those steps by the control
\* state alone.
force_loop_step ==
    pc = "force" /\ i' \in {i + 1, 0} /\ pc' \in {"force", "color"}

color_loop_step == pc = "color" /\ pc' \in {"split", "idle"}

SpecLive ==
    /\ Spec
    /\ WF_<<pc, i>>(force_loop_step)
    /\ WF_pc(color_loop_step)
    /\ WF_vars(\E gate \in BOOLEAN : update_split(gate))

\* The same program when the host seeds a ring: spawn_particles is called
\* with a count of at least 3.
NextRing ==
    \/ \E count \in 3 .. MaxCount, radius \in SpawnRadii :
          spawn_particles_call(count, radius)
    \/ \E color, other \in SpawnColors : spawn_particles_body(color, other)
    \/ spawn_particles_return
    \/ update_begin
    \/ update_force
    \/ update_color
    \/ \E gate \in BOOLEAN : update_split(gate)

SpecRing == Init /\ [][NextRing]_vars

\* The same program seeding a crowded ring (DenseCount particles, radius 0),
\* where combined neighbour counts reach the split threshold; every particle
\* of both systems gets the first spawn colour.
NextDense ==
    \/ spawn_particles_call(DenseCount, 0)
    \/ \E color \in {c \in SpawnColors : c[1] = Num(50)} :
          spawn_particles_body(color, color)
    \/ spawn_particles_return
    \/ update_begin
    \/ update_force
    \/ update_color
    \/ \E gate \in BOOLEAN : update_split(gate)

SpecDense == Init /\ [][NextDense]_vars

\* ---------------------------------------------------------------- claims
Spawned == pc \notin {"new", "spawn"}
InUpdate == pc \in {"force", "color", "split"}
Ring == Spawned /\ spawn_count >= 3
StartCount == Len(old_positions)

\* C1 - Topology closure: once spawn_particles(count >= 3) has returned, in
\* every state of every later update(), each particle is the next of its
\* prev and the prev of its next.
C1_TopologyClosure ==
    Ring => \A k \in Ids(edges) : next(prev(k)) = k /\ prev(next(k)) = k

\* a ring that has been split in two different update() calls
C1_Witness ==
    /\ Ring
    /\ pc = "idle"
    /\ steps >= 2
    /\ StartCount > spawn_count
    /\ num_particles > StartCount
    /\ \A k \in Ids(edges) : next(prev(k)) = k /\ prev(next(k)) = k

\* C2 - Split correctness: whenever the split pass splits the edge
\* (p0, p1) = (e, next(e)), the new particle q gets the id that was the
\* population count, links (p0, p1), becomes next(p0) and prev(p1), and
\* num_particles and every per-particle array grow by exactly one.
SplitFires == pc = "split" /\ Len(edges') # Len(edges)

C2_SplitCorrect ==
    [][SplitFires =>
        LET p0 == e
            p1 == next(e)
            q == num_particles
        IN  /\ prev(p1) = p0
            /\ At(edges', q) = <<p0, p1>>
            /\ At(edges', p0)[2] = q
            /\ At(edges', p1)[1] = q
            /\ num_particles' = num_particles + 1
            /\ Len(positions') = Len(positions) + 1
            /\ Len(colors') = Len(colors) + 1
            /\ Len(edges') = Len(edges) + 1
            /\ Len(pressures') = Len(pressures) + 1
            /\ Len(attractions') = Len(attractions) + 1
            /\ Len(num_neighbors') = Len(num_neighbors) + 1]_vars

\* the state right after a split of the edge (e - 1, p1) in a ring
C2_Witness ==
    /\ Ring
    /\ pc = "split"
    /\ e > 0
    /\ num_particles > StartCount
    /\ LET q == num_particles - 1
       IN  /\ At(edges, q)[1] = e - 1
           /\ next(e - 1) = q
           /\ prev(At(edges, q)[2]) = q

\* C3 - No self-neighbor: for a ring spawned with valid arguments, the set
\* get_neighbors_of_particle(k) returns never holds k, prev(k) or next(k).
C3_NoLinkedNeighbor ==
    (Ring /\ spawn_radius > 0) =>
        \A k \in 0 .. (num_particles - 1) :
            get_neighbors_of_particle(positions, num_particles, k)
                \cap {k, prev(k), next(k)} = {}

\* C4 - Growth monotonicity: the population never decreases; during and
\* after the split pass of an update() that started with n particles it is
\* at most n plus the number of edges visited so far, hence at most 2n.
GrowthBound ==
    steps > 0 =>
        /\ num_particles >= StartCount
        /\ num_particles <= 2 * StartCount
        /\ InUpdate /\ pc # "split" => num_particles = StartCount
        /\ pc = "split" => num_particles <= StartCount + e

C4_GrowthMonotone ==
    [][num_particles' >= num_particles /\ GrowthBound']_vars

\* an update() in which every edge of a ring was split
C4_Witness ==
    /\ Ring
    /\ pc = "idle"
    /\ steps > 0
    /\ num_particles = 2 * StartCount

\* C5 - Seeding: when spawn_particles(count >= 3) returns on a fresh
\* system, exactly count particles exist and edges[k] is
\* ((k - 1) mod count, (k + 1) mod count): one cycle of length count.
RECURSIVE NextIter(_, _)
NextIter(k, m) == IF m = 0 THEN k ELSE next(NextIter(k, m - 1))

OneCycle(n) ==
    \A k \in 0 .. (n - 1) :
        /\ { NextIter(k, m) : m \in 0 .. (n - 1) } = 0 .. (n - 1)
        /\ NextIter(k, n) = k

JustSpawned == pc = "idle" /\ steps = 0

C5_Seeding ==
    (JustSpawned /\ spawn_count >= 3) =>
        /\ num_particles = spawn_count
        /\ Len(positions) = spawn_count
        /\ Len(edges) = spawn_count
        /\ \A k \in 0 .. (spawn_count - 1) :
              At(edges, k) = << (k - 1 + spawn_count) % spawn_count,
                                (k + 1) % spawn_count >>
        /\ OneCycle(spawn_count)

C5_Witness ==
    /\ JustSpawned
    /\ spawn_count = MaxCount
    /\ num_particles = spawn_count
    /\ At(edges, 0) = <<spawn_count - 1, 1>>
    /\ At(edges, spawn_count - 1) = <<spawn_count - 2, 0>>

\* C6 - spawn rejects invalid arguments: after a spawn with count < 3 or
\* radius <= 0 no particle exists.
C6_SpawnRejectsInvalid ==
    (Spawned /\ (spawn_count < 3 \/ spawn_radius <= 0)) => num_particles = 0

\* C7 - Index validity: for a ring, between any two loop iterations of
\* update() (split pass included) both links of every particle and the three
\* tracked indices are below the population count, and every index the next
\* iteration reads (edges[i], old_positions[b0], old_positions[b1],
\* edges[e], the arrays at p0 and p1) is inside its array.
LinksValid ==
    \A k \in Ids(edges) : prev(k) < num_particles /\ next(k) < num_particles

TrackedValid ==
    /\ max_pressure_index < num_particles
    /\ max_attraction_index < num_particles
    /\ max_neighbors_index < num_particles

ArraysCover(n) ==
    /\ n <= Len(positions)
    /\ n <= Len(colors)
    /\ n <= Len(edges)
    /\ n <= Len(pressures)
    /\ n <= Len(attractions)
    /\ n <= Len(num_neighbors)

PendingAccessValid ==
    /\ pc = "force" =>
          /\ i < num_particles
          /\ prev(i) < Len(old_positions)
          /\ next(i) < Len(old_positions)
          /\ i < Len(old_positions)
    /\ pc = "split" =>
          /\ e < Len(edges)
          /\ next(e) < Len(positions)

C7_IndexValidity ==
    Ring => /\ LinksValid
            /\ TrackedValid
            /\ ArraysCover(num_particles)
            /\ PendingAccessValid

\* inside a split pass that has already inserted a particle
C7_Witness ==
    /\ Ring
    /\ pc = "split"
    /\ e > 0
    /\ num_particles > split_end
    /\ LinksValid
    /\ \E k \in Ids(edges) : next(k) = num_particles - 1

\* C8 - Cycle structure: for a ring, no particle is its own prev or next and
\* following next from any particle visits every particle exactly once and
\* then returns to the start: one cycle, as long as the population.
C8_CycleStructure ==
    Ring => /\ \A k \in Ids(edges) : prev(k) # k /\ next(k) # k
            /\ Len(edges) = num_particles
            /\ num_particles >= 3
            /\ OneCycle(num_particles)

\* a ring grown by splits that is still a single cycle
C8_Witness ==
    /\ Ring
    /\ pc = "idle"
    /\ num_particles >= spawn_count + 2
    /\ OneCycle(num_particles)

\* C9 - Dense, stable ids: every insertion appends exactly one entry to every
\* array at index = the population count before it (the id spawn's links
\* and split_at's rewiring use for it), nothing is ever removed, and in
\* every state num_particles is the length of each per-particle array.
LengthsAgree ==
    /\ Len(positions) = num_particles
    /\ Len(colors) = num_particles
    /\ Len(edges) = num_particles
    /\ Len(pressures) = num_particles
    /\ Len(attractions) = num_particles
    /\ Len(num_neighbors) = num_particles

Inserted == Len(positions') # Len(positions)

C9_DenseIds ==
    [][/\ LengthsAgree'
       /\ num_particles' >= num_particles
       /\ Inserted =>
            /\ Len(positions') = num_particles + 1
            /\ num_particles' = num_particles + 1
            /\ pc = "spawn" => i = num_particles
            /\ pc = "split" => /\ At(edges', e)[2] = num_particles
                               /\ At(edges', num_particles)[1] = e
            /\ SubSeq(pressures', 1, num_particles) = pressures
            /\ SubSeq(attractions', 1, num_particles) = attractions
            /\ SubSeq(num_neighbors', 1, num_particles) = num_neighbors
            /\ SubSeq(positions', 1, num_particles) = positions
            /\ SubSeq(colors', 1, num_particles) = colors]_vars

\* ids 0 .. count-1 after insertions by spawn and by splits of two updates
C9_Witness ==
    /\ Ring
    /\ steps >= 2
    /\ num_particles = MaxParticles
    /\ LengthsAgree
    /\ At(edges, num_particles - 1)[2] < spawn_count

\* C10 - Attraction: once the force pass of an update() is over, for every
\* particle k that existed when the call started, attractions[k] is the
\* midpoint of the start-of-step positions of the two particles k was
\* linked to at the start, minus k's own start-of-step position.
C10_Attraction ==
    (steps > 0 /\ pc \in {"color", "split", "idle"}) =>
        \A k \in Ids(old_positions) :
            LET b0 == At(old_edges, k)[1]
                b1 == At(old_edges, k)[2]
                mid == VMulRatio(VAdd(At(old_positions, b0),
                                      At(old_positions, b1)), 1, 2)
            IN  At(attractions, k) = VSub(mid, At(old_positions, k))

\* an update() of a ring in which a linked neighbour was moved before the
\* particle's own attraction was computed, and particles were pulled
C10_Witness ==
    /\ Ring
    /\ pc = "idle"
    /\ steps > 0
    /\ \E k \in Ids(old_positions) :
          /\ At(old_edges, k)[1] < k
          /\ At(positions, At(old_edges, k)[1])
                # At(old_positions, At(old_edges, k)[1])
          /\ At(attractions, k) # vec2(0, 0)

\* C11 - Finite positions: after spawn and any number of update() calls no
\* position holds a NaN, and every coordinate stays within the extent of the
\* spawned ring plus 5.0 per update() started (attraction contracts,
\* pressure moves by at most 0.4, a split offsets by at most 4.0): no
\* coordinate can run off to infinity.
Abs(x) == IF x < 0 THEN -x ELSE x

RECURSIVE SpawnExtent(_, _, _)
SpawnExtent(count, radius, k) ==
    IF k = 0 THEN 0
    ELSE LET p == SpawnPosition(count, radius, k - 1)
             rest == SpawnExtent(count, radius, k - 1)
             here == IF Abs(p[1]) > Abs(p[2]) THEN Abs(p[1]) ELSE Abs(p[2])
         IN  IF here > rest THEN here ELSE rest

Finite(v, bound) ==
    v # VNaN /\ Abs(v[1]) <= bound /\ Abs(v[2]) <= bound

C11_FinitePositions ==
    Spawned =>
        \A k \in Ids(positions) :
            Finite(At(positions, k),
                   SpawnExtent(spawn_count, spawn_radius, spawn_count)
                       + 5 * Scale * steps)

\* after an update() of a ring in which one particle had no neighbour (zero
\* pressure sum, nothing to normalise) and another had its pressure limited
C11_Witness ==
    /\ Ring
    /\ pc = "idle"
    /\ steps > 0
    /\ \E k \in Ids(old_positions) :
          At(num_neighbors, k) = 0 /\ At(pressures, k) = vec2(0, 0)
    /\ \E k \in Ids(old_positions) :
          /\ At(pressures, k) # VNaN
          /\ MagSq(At(pressures, k)) >= (2 * Scale - 2) * (2 * Scale - 2)
    /\ \A k \in Ids(positions) : At(positions, k) # VNaN

\* C12 - Colours have no physical effect: the twin system, which differs
\* from the first only in its colours and sees the same split-gate
\* outcomes, has at every point of every call the same population count,
\* positions, links, pressures, attractions, neighbour counts (and tracked
\* indices) as the first.
Physical(S) ==
    <<S.num_particles, S.positions, S.edges, S.pressures, S.attractions,
      S.num_neighbors, S.max_pressure_index, S.max_attraction_index,
      S.max_neighbors_index, S.old_positions>>

C12_ColorsNoPhysicalEffect == Physical(twin) = Physical(self)

\* the force pass of a ring has moved particles while the two systems
\* still carry different colours
C12_Witness ==
    /\ Ring
    /\ pc = "color"
    /\ twin.colors # colors
    /\ positions # old_positions
    /\ twin.positions = positions

\* C13 - Frozen snapshot: once the force pass of an update() of a ring is
\* over, the pressure of every particle k is the limited repulsion sum over
\* its neighbours computed from the positions at the start of the step
\* (whichever num_neighbors[k] particles the neighbour search returned).
C13_FrozenSnapshot ==
    (Ring /\ spawn_radius > 0 /\ steps > 0
          /\ pc \in {"color", "split", "idle"}) =>
        \A k \in Ids(old_positions) :
            \E js \in SUBSET (Ids(old_positions) \ {k}) :
                /\ Cardinality(js) = At(num_neighbors, k)
                /\ At(pressures, k) = pressure_of(old_positions, k, js)

\* C14 - Normalisation by the current maximum: when the colour pass of an
\* update() of a ring starts, max_pressure_index, max_attraction_index and
\* max_neighbors_index each name a particle whose pressure magnitude,
\* attraction magnitude, neighbour count of this step is the largest of all.
C14_CurrentMaximum ==
    (Ring /\ spawn_radius > 0 /\ pc = "color") =>
        \A k \in 0 .. (num_particles - 1) :
            /\ ~MagLess(At(pressures, max_pressure_index), At(pressures, k))
            /\ ~MagLess(At(attractions, max_attraction_index),
                        At(attractions, k))
            /\ At(num_neighbors, k) <= At(num_neighbors, max_neighbors_index)

\* the same, for the first update() after spawn only
C14_FirstUpdateMaximum ==
    (Ring /\ spawn_radius > 0 /\ pc = "color" /\ steps = 1) =>
        \A k \in 0 .. (num_particles - 1) :
            /\ ~MagLess(At(pressures, max_pressure_index), At(pressures, k))
            /\ ~MagLess(At(attractions, max_attraction_index),
                        At(attractions, k))
            /\ At(num_neighbors, k) <= At(num_neighbors, max_neighbors_index)

\* C15 - Split gating: in the split pass, the edge (e, next(e)) is split
\* only if num_neighbors[e] + num_neighbors[next(e)], as the force pass of
\* this update() left them, is below 16; an edge at or above 16 is passed
\* over, whatever the random gate says.
CombinedNeighbors(k) == At(num_neighbors, k) + At(num_neighbors, next(k))

C15_SplitGating ==
    [][pc = "split" =>
          /\ SplitFires => CombinedNeighbors(e) < SplitNeighborLimit
          /\ CombinedNeighbors(e) >= SplitNeighborLimit =>
                /\ edges' = edges
                /\ num_particles' = num_particles
          /\ \A k \in 0 .. (num_particles - 1) :
                At(num_neighbors', k) = At(num_neighbors, k)]_vars

\* a finished split pass that passed over a crowded edge (>= 16), split a
\* sparse one and left another sparse one unsplit
StartNext(k) == At(old_edges, k)[2]
StartCombined(k) == At(num_neighbors, k) + At(num_neighbors, StartNext(k))

C15_Witness ==
    /\ pc = "idle"
    /\ steps > 0
    /\ \E k \in Ids(old_edges) :
          StartCombined(k) >= SplitNeighborLimit /\ next(k) = StartNext(k)
    /\ \E k \in Ids(old_edges) :
          StartCombined(k) < SplitNeighborLimit /\ next(k) # StartNext(k)
    /\ \E k \in Ids(old_edges) :
          StartCombined(k) < SplitNeighborLimit /\ next(k) = StartNext(k)

\* C16 - Split is local: a split of the edge (p0, p1) of a ring changes
\* next(p0) and prev(p1) and appends one particle; prev(p0), next(p1), the
\* links of every other particle and the position, pressure, attraction,
\* neighbour count and colour of every existing particle stay as they were.
C16_SplitLocal ==
    [][(Ring /\ SplitFires) =>
        LET p0 == e
            p1 == next(e)
            n == num_particles
        IN  /\ At(edges', p0)[1] = prev(p0)
            /\ At(edges', p1)[2] = next(p1)
            /\ \A k \in (0 .. (n - 1)) \ {p0, p1} :
                  At(edges', k) = At(edges, k)
            /\ Len(edges') = n + 1
            /\ SubSeq(positions', 1, n) = positions
            /\ SubSeq(pressures', 1, n) = pressures
            /\ SubSeq(attractions', 1, n) = attractions
            /\ SubSeq(num_neighbors', 1, n) = num_neighbors
            /\ SubSeq(colors', 1, n) = colors]_vars

\* two splits in one split pass of a ring: the edge split first still has
\* its rewired links after the second one
C16_Witness ==
    /\ Ring
    /\ pc \in {"split", "idle"}
    /\ num_particles >= StartCount + 2
    /\ \E k \in Ids(old_edges) :
          /\ next(k) = StartCount
          /\ At(edges, StartCount) = <<k, StartNext(k)>>
          /\ prev(k) = At(old_edges, k)[1] \/ prev(k) >= StartCount

\* C18 - Neighbour discovery by distance: for every particle i and every
\* particle j that is neither i nor a direct link of i, j is returned by
\* get_neighbors_of_particle(i) exactly if the distance between their
\* current positions is at most influence_radius; and the count the force
\* pass records for i is the number of other particles within that distance
\* of i at the time of the call.
Within(a, b) ==
    (a[1] - b[1]) * (a[1] - b[1]) + (a[2] - b[2]) * (a[2] - b[2])
        <= influence_radius * influence_radius

NeighborsByDistance ==
    Spawned =>
        \A k \in 0 .. (num_particles - 1) :
            LET found ==
                    get_neighbors_of_particle(positions, num_particles, k)
            IN  \A j \in (0 .. (num_particles - 1)) \ {k, prev(k), next(k)} :
                    j \in found <=> Within(At(positions, k), At(positions, j))

C18_NeighborsByDistance ==
    /\ []NeighborsByDistance
    /\ [][pc = "force" =>
             At(num_neighbors', i) =
                 Cardinality({ j \in (0 .. (num_particles - 1)) \ {i} :
                                 Within(At(positions, i), At(positions, j)) })
         ]_vars

\* a ring in which the force pass counted, for some particle, a particle
\* that is not linked to it and lies within the radius, while another
\* unlinked particle lies outside it
C18_Witness ==
    /\ Ring
    /\ pc = "force"
    /\ i > 0
    /\ \E j \in (0 .. (num_particles - 1)) \ {i - 1, prev(i - 1), next(i - 1)} :
          j \in get_neighbors_of_particle(old_positions, num_particles, i - 1)
    /\ At(num_neighbors, i - 1) > 0
    /\ \E k \in 0 .. (num_particles - 1) :
          \E j \in (0 .. (num_particles - 1)) \ {k, prev(k), next(k)} :
              ~Within(At(positions, k), At(positions, j))

\* C19 - Ordering within a step: particles are inserted only by the split
\* pass, which runs after the force pass and the colour pass and changes no
\* existing position or colour; the split pass evaluates only edges that
\* existed when the update() started; and a particle inserted by this
\* update() keeps, until the next update() starts, the position it was
\* given, zero pressure, zero attraction and neighbour count 0.
NewThisStep == StartCount .. (num_particles - 1)

NewParticlesUntouched ==
    (Spawned /\ steps > 0) =>
        \A k \in NewThisStep :
            /\ At(pressures, k) = vec2(0, 0)
            /\ At(attractions, k) = vec2(0, 0)
            /\ At(num_neighbors, k) = 0

C19_StepOrdering ==
    [][/\ NewParticlesUntouched'
       /\ (Spawned /\ Inserted) => pc = "split"
       /\ pc \in {"force", "color"} => num_particles = StartCount
       /\ pc = "split" =>
             /\ e < StartCount
             /\ SubSeq(positions', 1, num_particles) = positions
             /\ SubSeq(colors', 1, num_particles) = colors
       /\ pc = "idle" => positions' = positions]_vars

\* a ring after an update() whose split pass inserted a particle between two
\* particles that the force pass had moved and given non-zero pressure
C19_Witness ==
    /\ Ring
    /\ pc = "idle"
    /\ steps > 0
    /\ num_particles > StartCount
    /\ positions # old_positions
    /\ \E k \in NewThisStep :
          /\ At(pressures, At(edges, k)[1]) # vec2(0, 0)
          /\ At(pressures, k) = vec2(0, 0)
          /\ At(num_neighbors, k) = 0

\* C17 - Termination: every update() that has started returns to the caller;
\* its split pass visits exactly the edges 0 .. n-1 that existed when the
\* update() started, one per iteration in increasing order, and returns
\* after the last of them even when splits have appended edges meanwhile.
C17_UpdateTerminates ==
    /\ InUpdate ~> (pc = "idle")
    /\ [](pc = "force" => i < num_particles)
    /\ [](pc = "split" => e < Len(old_edges) /\ split_end = Len(old_edges))
    /\ [][pc = "split" =>
            /\ e < StartCount
            /\ \/ pc' = "split" /\ e' = e + 1 /\ e' < StartCount
               \/ pc' = "idle" /\ e + 1 = StartCount]_vars

\* an update() that has returned after a split pass that appended edges
C17_Witness ==
    /\ Spawned
    /\ pc = "idle"
    /\ steps > 0
    /\ Len(edges) > StartCount
    /\ StartCount > 0

====
